---- MODULE Spec2Model ----
(***************************************************************************)
(* Model of src/app.py (ProspectInsightia): the Streamlit button handler,  *)
(* buscar_links_google (search), resumir_com_gemini (summarize) and        *)
(* generate_content_with_retry_rest (generate) under its tenacity @retry   *)
(* decorator.                                                              *)
(*                                                                         *)
(* Python strings are modelled as sequences of tokens; an f-string is the  *)
(* concatenation of its literal pieces and of the formatted values.        *)
(* Exceptions are records [cls, status, last, url]: the class name, the    *)
(* status code of the response the exception carries (0 when it carries    *)
(* none), for tenacity's RetryError the class of the wrapped last attempt, *)
(* and for the exceptions requests raises the URL of the request.          *)
(***************************************************************************)
EXTENDS Integers, Sequences, FiniteSets, TLC

VARIABLES pc, caller, links, attempt_number, attempts, waits, genResult,
          sumResult, sumCalls, searchGets, display, expFromZero,
          google_api_key, serpapi_api_key,
          searchArgs, searchReq, searchResp, searchResult

(* fixed for the life of the process: the installed tenacity and the two   *)
(* secrets read at lines 12 and 19                                         *)
config == <<expFromZero, google_api_key, serpapi_api_key>>

(* the arguments of the call of buscar_links_google, the parameters of its *)
(* GET, the provider's answer and how the call ended                       *)
searchVars == <<searchArgs, searchReq, searchResp, searchResult>>

vars == <<pc, caller, links, attempt_number, attempts, waits, genResult,
          sumResult, sumCalls, searchGets, display, config, searchVars>>

----------------------------------------------------------------------------
(* Bounds of the model *)

MaxLinks == 2

MaxItems == 2

MaxNum == 2

(* Inputs *)

URLs == {"u1", "u2"}

Langs == {"pt", "en"}

(* the two secrets of two deployments *)
KeyPairs == {<<"gk1", "sk1">>, <<"gk2", "sk2">>}

Keys == {"gk1", "gk2", "sk1", "sk2"}

Texts == {"t1", "t2"}

ErrStatuses == {429, 500}

OkStatuses == {200}

BodyKinds == {"unparseable", "scalar", "no_candidates", "empty_candidates",
              "bad_candidate", "text"}

SeqsUpTo(S, n) == UNION {[1..k -> S] : k \in 0..n}

----------------------------------------------------------------------------
(* Exceptions *)

NoExc == [cls |-> "", status |-> 0, last |-> "", url |-> <<>>]

(* an exception raised by this program or by the JSON / dict machinery *)
Exc(cls, status) == [cls |-> cls, status |-> status, last |-> "", url |-> <<>>]

(* an exception raised by requests for the request sent to url *)
ReqExc(cls, status, url) ==
  [cls |-> cls, status |-> status, last |-> "", url |-> url]

(* variant: the test is against requests.exceptions.RequestException *)
IsHTTPError_RequestException(e) ==
  e.cls \in {"HTTPError", "ConnectionError", "JSONDecodeError"}

(* isinstance(e, requests.exceptions.HTTPError): of the classes raised     *)
(* here only HTTPError itself is one; ConnectionError, JSONDecodeError,    *)
(* TypeError, KeyError and tenacity.RetryError are not.                    *)
IsHTTPError(e) == e.cls = "HTTPError"

(* str(e), as the f-strings of lines 84, 132-136 format it: requests puts  *)
(* the URL of the request, query string included, in the text of the       *)
(* HTTPError of raise_for_status and of a ConnectionError                  *)
StrExc(e) ==
  CASE e.cls = "HTTPError" ->
         IF e.url = <<>> THEN <<"Too Many Requests (429) received.">>
         ELSE <<ToString(e.status), " Error for url: ">> \o e.url
    [] e.cls = "ConnectionError" ->
         <<"Max retries exceeded with url: ">> \o e.url
    [] e.cls = "RetryError" -> <<"RetryError[<Future state=finished raised ",
                                 e.last, ">]">>
    [] OTHER                -> <<e.cls, " description">>

----------------------------------------------------------------------------
(* Results of a call: nothing yet, a returned string, a raised exception *)

NoResult == [kind |-> "none", val |-> <<>>, exc |-> NoExc]

Returned(s) == [kind |-> "returned", val |-> s, exc |-> NoExc]

Raised(e) == [kind |-> "raised", val |-> <<>>, exc |-> e]

Msg(fn, text) == [fn |-> fn, text |-> text]

----------------------------------------------------------------------------
(* The completion provider: what one POST can come back with *)

ConnFailure == [kind |-> "conn", status |-> 0, body |-> "", text |-> ""]

CompletionResponses ==
  {ConnFailure}
  \cup {[kind |-> "resp", status |-> s, body |-> "", text |-> ""] :
          s \in ErrStatuses}
  \cup {[kind |-> "resp", status |-> s, body |-> b, text |-> ""] :
          s \in OkStatuses, b \in BodyKinds \ {"text"}}
  \cup {[kind |-> "resp", status |-> s, body |-> "text", text |-> t] :
          s \in OkStatuses, t \in Texts}

----------------------------------------------------------------------------
(* generate_content_with_retry_rest: the decorated function's body *)

SENTINEL == <<"Nao foi possivel extrair o conteudo gerado pelo Gemini.">>

(* response.raise_for_status(): raises HTTPError for 4xx and 5xx *)
RaiseForStatus(status) == status >= 400 /\ status < 600

(* variant: only `"candidates" in response_json` is tested *)
HasCandidates_KeyOnly(body) ==
  body \in {"empty_candidates", "bad_candidate", "text"}

(* lines 53-57: "candidates" in response_json and response_json["candidates"] *)
HasCandidates(body) == body \in {"bad_candidate", "text"}

GEMINI_API_ENDPOINT == "https://generativelanguage.googleapis.com/v1beta/models/gemini-2.0-flash:generateContent"

(* line 46: f"{GEMINI_API_ENDPOINT}?key={google_api_key}" *)
CompletionUrl == <<GEMINI_API_ENDPOINT, "?key=", google_api_key>>

(* variant: lines 52-54 wrapped in a try that falls back to the sentinel *)
GenerateBody_Guarded(r) ==
  IF r.kind = "conn" THEN Raised(ReqExc("ConnectionError", 0, CompletionUrl))
  ELSE IF RaiseForStatus(r.status)
       THEN Raised(ReqExc("HTTPError", r.status, CompletionUrl))
  ELSE IF r.body = "text" THEN Returned(<<r.text>>)
  ELSE Returned(SENTINEL)

(* One call of the function body on the response r of its POST: the value  *)
(* it returns or the exception it raises.                                  *)
GenerateBody(r) ==
  IF r.kind = "conn" THEN Raised(ReqExc("ConnectionError", 0, CompletionUrl))
  ELSE IF RaiseForStatus(r.status)
       THEN Raised(ReqExc("HTTPError", r.status, CompletionUrl))
  ELSE IF r.status = 429 THEN Raised(Exc("HTTPError", r.status))
  ELSE IF r.body = "unparseable" THEN Raised(Exc("JSONDecodeError", 0))
  ELSE IF r.body = "scalar" THEN Raised(Exc("TypeError", 0))
  ELSE IF HasCandidates(r.body)
       THEN IF r.body = "text" THEN Returned(<<r.text>>)
                               ELSE Raised(Exc("KeyError", 0))
       ELSE Returned(SENTINEL)

(* st.warning of line 56, emitted on the sentinel path only *)
GenerateWarnings(r) ==
  IF GenerateBody(r).kind = "returned" /\ ~HasCandidates(r.body)
  THEN <<Msg("warning", <<"AVISO: Resposta Gemini sem candidatos. Detalhes: ",
                          r.body>>)>>
  ELSE <<>>

----------------------------------------------------------------------------
(* The @retry decorator (tenacity) *)

MaxAttempts == 5

WaitMultiplier == 1

WaitMin == 4

WaitMax == 10

Max2(a, b) == IF a >= b THEN a ELSE b

Min2(a, b) == IF a <= b THEN a ELSE b

(* variant: retry_if_exception_type() with its default, Exception *)
RetryIf_AnyException(res) == res.kind = "raised"

(* retry=retry_if_exception_type(requests.exceptions.HTTPError) *)
RetryIf(res) == res.kind = "raised" /\ IsHTTPError(res.exc)

(* variant: the stop condition is off by one *)
StopAfterAttempt_Late(n) == n > MaxAttempts

(* stop=stop_after_attempt(5) *)
StopAfterAttempt(n) == n >= MaxAttempts

(* variant: wait_exponential(multiplier=1, max=10), the min left out *)
WaitExponential_NoMin(n, fromZero) ==
  LET e == IF fromZero THEN n - 1 ELSE n
  IN Min2(WaitMultiplier * (2 ^ e), WaitMax)

(* wait=wait_exponential(multiplier=1, min=4, max=10): the exponent is     *)
(* attempt_number - 1 in current tenacity and attempt_number in old ones   *)
WaitExponential(n, fromZero) ==
  LET e == IF fromZero THEN n - 1 ELSE n
  IN Max2(Max2(0, WaitMin), Min2(WaitMultiplier * (2 ^ e), WaitMax))

(* The decorator is built without reraise=True: when it stops it raises    *)
(* RetryError(last_attempt), chained from the attempt's exception.         *)
RetryExhausted(res) ==
  Raised([cls |-> "RetryError", status |-> 0, last |-> res.exc.cls,
          url |-> <<>>])

(* variant: the function is called without the decorator *)
RetryDecision_NoRetry(res, n) == [do |-> "exit", result |-> res]

(* What the decorated call does after attempt n ended with res:            *)
(* "exit" with a result for the caller, or "retry" after a wait.           *)
RetryDecision(res, n) ==
  IF ~RetryIf(res) THEN [do |-> "exit", result |-> res]
  ELSE IF StopAfterAttempt(n) THEN [do |-> "exit", result |-> RetryExhausted(res)]
  ELSE [do |-> "retry", result |-> NoResult]

----------------------------------------------------------------------------
(* buscar_links_google. Lines 65-81 of the source are mis-indented (the    *)
(* try and its body); they are read as the body of the try of lines 65-85. *)

Items ==
  {[isdict |-> TRUE, haslink |-> TRUE, link |-> u] : u \in URLs}
  \cup {[isdict |-> TRUE, haslink |-> FALSE, link |-> ""],
        [isdict |-> FALSE, haslink |-> FALSE, link |-> ""]}

SearchResponses ==
  {[kind |-> k, status |-> 0, organic |-> <<>>] : k \in {"conn"}}
  \cup {[kind |-> "http", status |-> s, organic |-> <<>>] : s \in ErrStatuses}
  \cup {[kind |-> k, status |-> 200, organic |-> <<>>] :
          k \in {"unparseable", "scalar", "no_organic"}}
  \cup {[kind |-> "organic", status |-> 200, organic |-> o] :
          o \in SeqsUpTo(Items, MaxItems)}

(* Index of the first entry on which `"link" in item` raises, or Len + 1 *)
FirstBad(o) ==
  IF \E i \in 1..Len(o) : ~o[i].isdict
  THEN CHOOSE i \in 1..Len(o) :
         ~o[i].isdict /\ \A j \in 1..(i - 1) : o[j].isdict
  ELSE Len(o) + 1

RECURSIVE LinksOf_Reversed(_)
(* variant: each link is inserted at the front of resultados *)
LinksOf_Reversed(o) ==
  IF o = <<>> THEN <<>>
  ELSE LinksOf_Reversed(Tail(o))
       \o (IF Head(o).haslink THEN <<Head(o).link>> ELSE <<>>)

RECURSIVE LinksOf(_)
(* lines 79-81 over entries that are all dicts *)
LinksOf(o) ==
  IF o = <<>> THEN <<>>
  ELSE (IF Head(o).haslink THEN <<Head(o).link>> ELSE <<>>) \o LinksOf(Tail(o))

(* lines 66-72: the params dict of the GET; hl is the string literal *)
SearchParams(query, num, lang) ==
  [api_key |-> serpapi_api_key, q |-> query, num |-> num, hl |-> "lang",
   gl |-> "br"]

(* the URL requests builds from url and params (lines 73-74) *)
SearchUrl(params) ==
  <<"https://serpapi.com/search", "?api_key=", params.api_key,
    "&q=", params.q, "&num=", ToString(params.num), "&hl=", params.hl,
    "&gl=", params.gl>>

(* the params of the call in progress: buscar_links_google(query, num, lang) *)
CurrentParams == SearchParams(searchArgs.query, searchArgs.num, searchArgs.lang)

(* The exception the try block of lines 65-82 ends with, NoExc if none *)
SearchExc(r) ==
  CASE r.kind = "conn" ->
         ReqExc("ConnectionError", 0, SearchUrl(CurrentParams))
    [] r.kind = "http" ->
         ReqExc("HTTPError", r.status, SearchUrl(CurrentParams))
    [] r.kind = "unparseable" -> Exc("JSONDecodeError", 0)
    [] r.kind = "scalar"      -> Exc("TypeError", 0)
    [] r.kind = "no_organic"  -> NoExc
    [] OTHER -> IF FirstBad(r.organic) <= Len(r.organic)
                THEN Exc("TypeError", 0) ELSE NoExc

(* resultados at the return of line 86 *)
SearchLinks(r) ==
  IF r.kind = "organic"
  THEN LinksOf(SubSeq(r.organic, 1, FirstBad(r.organic) - 1))
  ELSE <<>>

(* variant: line 83 is `except requests.exceptions.RequestException` *)
SearchCatches_RequestsOnly(e) ==
  e.cls \in {"HTTPError", "ConnectionError", "JSONDecodeError"}

(* line 83, `except Exception`: every class raised in the try derives from it *)
SearchCatches(e) ==
  e.cls \in {"HTTPError", "ConnectionError", "JSONDecodeError", "TypeError"}

(* how buscar_links_google ends: the list returned at line 86, or the      *)
(* exception line 83 did not catch                                         *)
SearchResult(r) ==
  IF SearchExc(r) = NoExc \/ SearchCatches(SearchExc(r))
  THEN Returned(SearchLinks(r))
  ELSE Raised(SearchExc(r))

(* st.info (line 63), then st.success (82) or st.error + st.warning (84-85) *)
SearchMessages(r) ==
  <<Msg("info", <<"Buscando ", ToString(searchArgs.num),
                  " links no Google para: ", searchArgs.query,
                  " (via SerpApi)...">>)>>
  \o (IF SearchExc(r) = NoExc
      THEN <<Msg("success", <<"Links encontrados: ",
                              ToString(Len(SearchLinks(r)))>>)>>
      ELSE IF SearchCatches(SearchExc(r))
      THEN <<Msg("error", <<"ERRO ao buscar links no Google via SerpApi para ",
                            searchArgs.query, ": ">>
                          \o StrExc(SearchExc(r))),
             Msg("warning", <<"Verifique se a sua API Key da SerpApi esta correta e se voce tem creditos.">>)>>
      ELSE <<>>)

----------------------------------------------------------------------------
(* resumir_com_gemini *)

NO_LINKS == <<"Nao foi possivel gerar um resumo, pois nenhum link relevante foi fornecido ou encontrado.">>

QUOTA == <<"Nao foi possivel gerar o resumo devido ao limite de requisicoes da API. Tente novamente mais tarde ou verifique sua cota.">>

HttpErrorMsg(e) ==
  <<"Ocorreu um erro HTTP ao gerar o resumo: ">> \o StrExc(e)
  \o <<". Status: ", ToString(e.status)>>

UnknownErrorMsg(e) ==
  <<"Ocorreu um erro desconhecido durante a geracao do resumo: ", e.cls, ": ">>
  \o StrExc(e)

(* variant: the last clause is `except requests.exceptions.RequestException` *)
IsException_RequestsOnly(e) ==
  e.cls \in {"HTTPError", "ConnectionError", "JSONDecodeError"}

(* `except Exception` (line 134): every class raised here derives from it *)
IsException(e) ==
  e.cls \in {"HTTPError", "ConnectionError", "JSONDecodeError", "TypeError",
             "KeyError", "RetryError"}

(* variant: line 126 returns f"Resumo: {resumo_final}" *)
ResumirResult_Decorated(res) ==
  IF res.kind = "returned" THEN Returned(<<"Resumo: ">> \o res.val)
  ELSE Returned(UnknownErrorMsg(res.exc))

(* lines 124-136: how resumir_com_gemini ends for the way the call of      *)
(* line 125 ended: the string it returns, or the exception no except       *)
(* clause matched                                                          *)
ResumirResult(res) ==
  IF res.kind = "returned" THEN Returned(res.val)
  ELSE IF IsHTTPError(res.exc)
       THEN IF res.exc.status = 429 THEN Returned(QUOTA)
                                    ELSE Returned(HttpErrorMsg(res.exc))
       ELSE IF IsException(res.exc) THEN Returned(UnknownErrorMsg(res.exc))
                                    ELSE Raised(res.exc)

(* the st.error of the except branch taken *)
ResumirMessages(res) ==
  IF res.kind = "returned" THEN <<>>
  ELSE IF IsHTTPError(res.exc)
       THEN IF res.exc.status = 429
            THEN <<Msg("error", <<"ERRO DE COTA: Voce excedeu seu limite de requisicoes ao Gemini.">>)>>
            ELSE <<Msg("error", <<"ERRO HTTP inesperado ao gerar o resumo: ">>
                                \o StrExc(res.exc)
                                \o <<". Status: ", ToString(res.exc.status)>>)>>
       ELSE IF IsException(res.exc)
            THEN <<Msg("error", <<"ERRO INESPERADO ao gerar o resumo: ">>
                                \o StrExc(res.exc))>>
            ELSE <<>>

----------------------------------------------------------------------------
(* The program: one Streamlit script run, or one direct call of search or  *)
(* of summarize                                                            *)

NO_LINKS_FOUND == <<"Nenhum link foi encontrado para a query especificada. Nao e possivel gerar um resumo.">>

(* the query the page builds at lines 170-171 *)
QUERY == "Totvs Software de gestao empresarial expansao"

NoArgs == [query |-> "", num |-> 0, lang |-> ""]

NoParams == [api_key |-> "", q |-> "", num |-> 0, hl |-> "", gl |-> ""]

NoResponse == [kind |-> "none", status |-> 0, organic |-> <<>>]

Init ==
  /\ pc = "idle"
  /\ caller = "none"
  /\ links = <<>>
  /\ attempt_number = 0
  /\ attempts = <<>>
  /\ waits = <<>>
  /\ genResult = NoResult
  /\ sumResult = NoResult
  /\ sumCalls = 0
  /\ searchGets = 0
  /\ display = <<>>
  /\ expFromZero \in BOOLEAN
  /\ \E kp \in KeyPairs : google_api_key = kp[1] /\ serpapi_api_key = kp[2]
  /\ searchArgs = NoArgs
  /\ searchReq = NoParams
  /\ searchResp = NoResponse
  /\ searchResult = NoResult

(* variant: `if links is None` *)
NoLinks_Never(l) == FALSE

(* line 92: `not links` *)
NoLinks(l) == l = <<>>

(* variant: `if links_encontrados is not None:` *)
LinksEncontrados_Always(found) == TRUE

(* line 177: `if links_encontrados:` *)
LinksEncontrados(found) == found # <<>>

(* resumir_com_gemini(l) up to its first request: lines 92-123 *)
EnterResumir(l, shown) ==
  /\ sumCalls' = sumCalls + 1
  /\ links' = l
  /\ IF NoLinks(l)
     THEN /\ display' = shown \o <<Msg("warning", <<"AVISO: Nenhum link valido fornecido para resumo.">>)>>
          /\ sumResult' = Returned(NO_LINKS)
          /\ pc' = "done"
     ELSE /\ display' = shown \o <<Msg("info", <<"Iniciando a geracao do resumo detalhado com o Gemini...">>)>>
          /\ sumResult' = sumResult
          /\ pc' = "attempt"

(* lines 164-175: the button is pressed; the page calls                   *)
(* buscar_links_google(query_pesquisa, num_resultados=num), lang defaulted *)
Click(nome_vazio, num) ==
  /\ pc = "idle"
  /\ caller' = "handler"
  /\ IF nome_vazio
     THEN /\ display' = display \o <<Msg("warning", <<"Por favor, insira o nome da empresa.">>)>>
          /\ pc' = "done"
          /\ UNCHANGED searchArgs
     ELSE /\ display' = display \o <<Msg("subheader", <<"Etapa 1: Busca no Google">>)>>
          /\ pc' = "search"
          /\ searchArgs' = [query |-> QUERY, num |-> num, lang |-> "pt"]
  /\ UNCHANGED <<links, attempt_number, attempts, waits, genResult,
                 sumResult, sumCalls, searchGets, config,
                 searchReq, searchResp, searchResult>>

(* a caller other than the page calls buscar_links_google(QUERY, num, lang) *)
CallBuscar(num, lang) ==
  /\ pc = "idle"
  /\ caller' = "direct_search"
  /\ pc' = "search"
  /\ searchArgs' = [query |-> QUERY, num |-> num, lang |-> lang]
  /\ UNCHANGED <<links, attempt_number, attempts, waits, genResult,
                 sumResult, sumCalls, searchGets, display, config,
                 searchReq, searchResp, searchResult>>

(* buscar_links_google (lines 63-86) with the provider's answer r to its   *)
(* GET and, in the page, lines 177-190                                     *)
BuscarLinks(r) ==
  /\ pc = "search"
  /\ searchGets' = searchGets + 1
  /\ searchReq' = CurrentParams
  /\ searchResp' = r
  /\ searchResult' = SearchResult(r)
  /\ LET out == SearchResult(r)
         found == out.val
         shown == display \o SearchMessages(r)
     IN IF out.kind = "raised" \/ caller # "handler"
        THEN /\ display' = shown
             /\ links' = found
             /\ pc' = "done"
             /\ UNCHANGED <<sumCalls, sumResult>>
        ELSE IF LinksEncontrados(found)
        THEN EnterResumir(found,
               shown \o <<Msg("write", <<"Links encontrados para analise:">>)>>
                     \o [i \in 1..Len(found) |-> Msg("markdown", <<found[i]>>)]
                     \o <<Msg("subheader", <<"Etapa 2: Geracao do Resumo com Gemini">>)>>)
        ELSE /\ display' = shown \o <<Msg("warning", NO_LINKS_FOUND)>>
             /\ links' = found
             /\ pc' = "done"
             /\ UNCHANGED <<sumCalls, sumResult>>
  /\ UNCHANGED <<caller, attempt_number, attempts, waits, genResult,
                 config, searchArgs>>

(* a caller other than the page calls resumir_com_gemini(l) *)
CallResumir(l) ==
  /\ pc = "idle"
  /\ caller' = "direct"
  /\ EnterResumir(l, display)
  /\ UNCHANGED <<attempt_number, attempts, waits, genResult, searchGets,
                 config, searchVars>>

(* one attempt of the decorated call of line 125: the POST of line 46      *)
(* answered by r, the rest of the body, tenacity's decision and, when the  *)
(* call ends, lines 126-136 and (in the page) lines 186-188                *)
Attempt(r) ==
  /\ pc = "attempt"
  /\ attempt_number' = attempt_number + 1
  /\ attempts' = Append(attempts, r)
  /\ LET res == GenerateBody(r)
         d == RetryDecision(res, attempt_number + 1)
         out == ResumirResult(d.result)
     IN IF d.do = "retry"
        THEN /\ pc' = "wait"
             /\ display' = display \o GenerateWarnings(r)
             /\ UNCHANGED <<genResult, sumResult>>
        ELSE /\ pc' = "done"
             /\ genResult' = d.result
             /\ sumResult' = out
             /\ display' = display \o GenerateWarnings(r)
                             \o ResumirMessages(d.result)
                             \o (IF caller = "handler" /\ out.kind = "returned"
                                 THEN <<Msg("subheader", <<"Resumo Analitico para Prospeccao">>),
                                        Msg("markdown", out.val)>>
                                 ELSE <<>>)
  /\ UNCHANGED <<caller, links, waits, sumCalls, searchGets, config,
                 searchVars>>

(* tenacity sleeps for the computed wait before the next attempt *)
Sleep ==
  /\ pc = "wait"
  /\ waits' = Append(waits, WaitExponential(attempt_number, expFromZero))
  /\ pc' = "attempt"
  /\ UNCHANGED <<caller, links, attempt_number, attempts, genResult,
                 sumResult, sumCalls, searchGets, display, config,
                 searchVars>>

(* the script run or the call is over; the next one starts from scratch *)
Rerun ==
  /\ pc = "done"
  /\ pc' = "idle"
  /\ caller' = "none"
  /\ links' = <<>>
  /\ attempt_number' = 0
  /\ attempts' = <<>>
  /\ waits' = <<>>
  /\ genResult' = NoResult
  /\ sumResult' = NoResult
  /\ sumCalls' = 0
  /\ searchGets' = 0
  /\ display' = <<>>
  /\ searchArgs' = NoArgs
  /\ searchReq' = NoParams
  /\ searchResp' = NoResponse
  /\ searchResult' = NoResult
  /\ UNCHANGED config

Next ==
  \/ \E b \in BOOLEAN, n \in 1..MaxNum : Click(b, n)
  \/ \E n \in 1..MaxNum, l \in Langs : CallBuscar(n, l)
  \/ \E r \in SearchResponses : BuscarLinks(r)
  \/ \E l \in SeqsUpTo(URLs, MaxLinks) : CallResumir(l)
  \/ \E r \in CompletionResponses : Attempt(r)
  \/ Sleep
  \/ Rerun

Spec == Init /\ [][Next]_vars

(* Every request is eventually answered (or fails) and every sleep ends *)
FairSpec ==
  /\ Spec
  /\ WF_vars(\E r \in CompletionResponses : Attempt(r))
  /\ WF_vars(Sleep)

----------------------------------------------------------------------------
(* Vocabulary of the properties *)

(* the attempt answered by r failed with an HTTP error status (4xx/5xx) *)
HttpFailed(r) == r.kind = "resp" /\ r.status >= 400 /\ r.status <= 599

(* the call of generate has ended *)
GenerateEnded == genResult.kind # "none"

(* the string s contains the token t *)
Contains(s, t) == \E i \in 1..Len(s) : s[i] = t

AllAttempts(P(_)) == \A i \in 1..Len(attempts) : P(attempts[i])

----------------------------------------------------------------------------
(* C1: when all 5 attempts of one generate invocation fail with an HTTP    *)
(* error, the failure that reaches the caller is the HTTPError of the last *)
(* attempt itself, carrying the last response's status code, not a wrapper.*)
C1_LastHttpErrorUnmodified ==
  (GenerateEnded /\ Len(attempts) = 5 /\ AllAttempts(HttpFailed))
    => genResult = Raised(ReqExc("HTTPError", attempts[5].status,
                                 CompletionUrl))

(* C2: one invocation of generate sends at most 5 completion requests,     *)
(* exactly 5 when each attempt fails with an HTTP error status, and never  *)
(* starts a 6th attempt.                                                   *)
C2_AtMostFiveAttempts ==
  /\ Len(attempts) <= 5
  /\ attempt_number <= 5
  /\ (Len(attempts) = 5) => pc = "done"
  /\ (GenerateEnded /\ AllAttempts(HttpFailed)) => Len(attempts) = 5

C2_Witness ==
  /\ GenerateEnded
  /\ Len(attempts) = 5
  /\ AllAttempts(HttpFailed)

(* C3: when every attempt is answered 429, summarize with a non-empty link *)
(* list makes exactly 5 attempts and returns the quota-exceeded message.   *)
C3_QuotaMessageAfter429 ==
  (pc = "done" /\ links # <<>> /\ attempts # <<>>
     /\ \A i \in 1..Len(attempts) : attempts[i].status = 429)
    => /\ Len(attempts) = 5
       /\ sumResult = Returned(QUOTA)

(* C4: when every attempt is answered with the same HTTP error status s    *)
(* other than 429, summarize with a non-empty link list returns, after 5   *)
(* attempts, the generic HTTP-error message that includes s.               *)
C4_HttpErrorMessageWithStatus ==
  \A s \in ErrStatuses \ {429} :
    (pc = "done" /\ links # <<>> /\ attempts # <<>>
       /\ \A i \in 1..Len(attempts) : attempts[i].status = s)
      => /\ Len(attempts) = 5
         /\ sumResult.kind = "returned"
         /\ Contains(sumResult.val, "Ocorreu um erro HTTP ao gerar o resumo: ")
         /\ Contains(sumResult.val, ToString(s))

(* C5: however generate exits (text, sentinel, retry exhaustion, non-HTTP  *)
(* failure), summarize returns a string; no exception leaves summarize.    *)
C5_SummarizeTotal ==
  /\ sumResult.kind # "raised"
  /\ (pc = "done" /\ sumCalls > 0) => sumResult.kind = "returned"
  /\ GenerateEnded => sumResult.kind = "returned"

C5_Witness ==
  /\ genResult = Raised(Exc("KeyError", 0))
  /\ sumResult.kind = "returned"

(* C6: summarize called with an empty link list returns the fixed          *)
(* no-relevant-links message and sends no completion request.              *)
C6_EmptyLinksShortCircuit ==
  (sumCalls > 0 /\ links = <<>>)
    => /\ sumResult = Returned(NO_LINKS)
       /\ pc = "done"
       /\ attempts = <<>>
       /\ attempt_number = 0
       /\ ~GenerateEnded

C6_Witness ==
  /\ caller = "direct"
  /\ sumCalls = 1
  /\ links = <<>>
  /\ sumResult = Returned(NO_LINKS)

(* C7: in the page, search completes before any summary step; when search  *)
(* yields no link, summarize is never invoked, no completion request is    *)
(* sent and the last thing displayed is the fixed no-links warning; a      *)
(* completion request is only sent after search returned a non-empty list. *)
C7_SearchBeforeSummary ==
  caller = "handler" =>
    /\ (pc = "search") => (sumCalls = 0 /\ attempts = <<>>)
    /\ (searchGets > 0 /\ links = <<>>)
         => /\ sumCalls = 0
            /\ attempts = <<>>
            /\ pc = "done"
            /\ display[Len(display)] = Msg("warning", NO_LINKS_FOUND)
    /\ (sumCalls > 0 \/ attempts # <<>>) => (searchGets = 1 /\ links # <<>>)

C7_Witness ==
  /\ caller = "handler"
  /\ searchGets = 1
  /\ links = <<>>
  /\ \E i \in 1..Len(display) : display[i].fn = "error"
  /\ display[Len(display)] = Msg("warning", NO_LINKS_FOUND)

(* C8: a non-error response whose body has no candidates field or an     *)
(* empty candidates list makes generate return the fixed sentinel string;  *)
(* nothing is raised and the attempt is not retried.                       *)
C8_SentinelOnMissingCandidates ==
  \A i \in 1..Len(attempts) :
    (/\ attempts[i].kind = "resp"
     /\ ~HttpFailed(attempts[i])
     /\ attempts[i].body \in {"no_candidates", "empty_candidates"})
      => /\ i = Len(attempts)
         /\ pc = "done"
         /\ genResult = Returned(SENTINEL)

C8_Witness ==
  /\ Len(attempts) = 3
  /\ attempts[3].body = "empty_candidates"
  /\ genResult = Returned(SENTINEL)

(* C9: attempt n+1 is started only if attempt n failed with an HTTP error  *)
(* status; an attempt that returns a value or fails otherwise ends the     *)
(* invocation with no further request.                                     *)
C9_RetryOnlyOnHttpError ==
  /\ \A i \in 1..Len(attempts) :
       (i < Len(attempts)) => HttpFailed(attempts[i])
  /\ \A i \in 1..Len(attempts) :
       ~HttpFailed(attempts[i])
         => (i = Len(attempts) /\ pc = "done" /\ GenerateEnded)
  /\ (pc = "wait") => HttpFailed(attempts[Len(attempts)])

C9_Witness ==
  /\ Len(attempts) = 2
  /\ HttpFailed(attempts[1])
  /\ attempts[2].body = "unparseable"
  /\ pc = "done"

(* C10 as stated: a connection failure during a completion request is     *)
(* retried, so the invocation only ends at the 5-attempt ceiling.          *)
C10_ConnFailureRetried ==
  \A i \in 1..Len(attempts) :
    (attempts[i] = ConnFailure /\ i < 5)
      => (pc = "wait" \/ Len(attempts) > i)

(* C10 amended: a connection failure during a completion request is not   *)
(* retried: the attempt that hits it is the last one, generate raises the  *)
(* ConnectionError at once and summarize returns the unknown-error message *)
(* naming ConnectionError.                                                 *)
C10_ConnFailureNotRetried ==
  \A i \in 1..Len(attempts) :
    attempts[i] = ConnFailure
      => /\ i = Len(attempts)
         /\ pc = "done"
         /\ genResult = Raised(ReqExc("ConnectionError", 0, CompletionUrl))
         /\ sumResult = Returned(UnknownErrorMsg(
                           ReqExc("ConnectionError", 0, CompletionUrl)))

C10_Witness ==
  /\ Len(attempts) = 1
  /\ attempts[1] = ConnFailure
  /\ pc = "done"
  /\ Contains(sumResult.val, "ConnectionError")

(* the last attempt of the invocation *)
LastAttempt == attempts[Len(attempts)]

(* C11 as stated: the only failures generate raises are retry-exhausted    *)
(* HTTP errors; an unparseable body, a first candidate without             *)
(* content/parts/text and a connection failure are turned into a value     *)
(* inside generate.                                                        *)
C11_OnlyExhaustionRaises ==
  (GenerateEnded /\ genResult.kind = "raised")
    => (Len(attempts) = 5 /\ AllAttempts(HttpFailed))

(* C11 amended: generate raises in two cases: when the retries are         *)
(* exhausted after 5 HTTP errors, and at once, without retry, when an      *)
(* attempt hits a connection failure, an unparseable or non-object body,   *)
(* or a first candidate without content/parts/text; inside generate only   *)
(* the absent or empty candidates list becomes a value (the sentinel), and *)
(* the raised failures become an explanatory string in summarize.          *)
C11_RaisedFailures ==
  GenerateEnded =>
    /\ (genResult.kind = "raised")
         <=> \/ (Len(attempts) = 5 /\ AllAttempts(HttpFailed))
             \/ LastAttempt.kind = "conn"
             \/ (~HttpFailed(LastAttempt)
                 /\ LastAttempt.body \in {"unparseable", "scalar",
                                          "bad_candidate"})
    /\ (genResult = Returned(SENTINEL) /\ LastAttempt.body # "text")
         <=> (~HttpFailed(LastAttempt)
              /\ LastAttempt.body \in {"no_candidates", "empty_candidates"})
    /\ (genResult.kind = "raised")
         => (sumResult.kind = "returned" /\ sumResult.val # SENTINEL
             /\ Contains(sumResult.val, genResult.exc.cls))

C11_Witness ==
  /\ Len(attempts) = 2
  /\ LastAttempt.body = "bad_candidate"
  /\ genResult = Raised(Exc("KeyError", 0))
  /\ sumResult.kind = "returned"

(* the search has been answered *)
SearchEnded == searchGets > 0

(* the answer r is a transport failure, an HTTP error status, an           *)
(* unparseable or non-object body, or has a non-object organic entry       *)
SearchFailed(r) ==
  \/ r.kind \in {"conn", "http", "unparseable", "scalar"}
  \/ (r.kind = "organic" /\ \E i \in 1..Len(r.organic) : ~r.organic[i].isdict)

(* C12: search never raises: whatever failure its request hits, the        *)
(* invocation returns a list, reports the error through st.error, and has  *)
(* sent exactly one HTTP request.                                          *)
C12_SearchNeverRaises ==
  /\ searchResult.kind # "raised"
  /\ searchGets <= 1
  /\ SearchEnded =>
       /\ searchResult.kind = "returned"
       /\ searchGets = 1
       /\ SearchFailed(searchResp)
            => \E i \in 1..Len(display) :
                 /\ display[i].fn = "error"
                 /\ display[i].text[1] = "ERRO ao buscar links no Google via SerpApi para "

C12_Witness ==
  /\ SearchEnded
  /\ searchResp.kind = "organic"
  /\ SearchFailed(searchResp)
  /\ searchResult.kind = "returned"

(* C13: whenever a search invocation hits a transport failure, an HTTP     *)
(* failure or a malformed response (a malformed organic entry after        *)
(* well-formed ones included), the sequence it returns is empty.           *)
C13_FailedSearchReturnsEmpty ==
  (SearchEnded /\ SearchFailed(searchResp))
    => (searchResult.kind = "returned" /\ searchResult.val = <<>>)

(* the answer r is a JSON object whose organic entries, if any, are objects *)
WellFormed(r) ==
  \/ r.kind = "no_organic"
  \/ (r.kind = "organic" /\ \A i \in 1..Len(r.organic) : r.organic[i].isdict)

(* C14: for a well-formed response search returns exactly the link values  *)
(* of the organic entries that have a link, in response order, skipping    *)
(* the entries without one and keeping duplicates; without an organic      *)
(* collection it returns the empty sequence.                               *)
C14_LinksInResponseOrder ==
  (SearchEnded /\ WellFormed(searchResp)) =>
    LET o == searchResp.organic
        withLink == {i \in 1..Len(o) : o[i].haslink}
        rank(i) == Cardinality({j \in withLink : j <= i})
        R == searchResult.val
    IN /\ searchResult.kind = "returned"
       /\ Len(R) = Cardinality(withLink)
       /\ \A i \in withLink : R[rank(i)] = o[i].link
       /\ (searchResp.kind = "no_organic") => R = <<>>

C14_Witness ==
  /\ SearchEnded
  /\ WellFormed(searchResp)
  /\ Len(searchResp.organic) = 2
  /\ ~searchResp.organic[1].haslink
  /\ searchResult = Returned(<<"u2">>)

(* C15: for every requested count n, search returns at most n URLs,        *)
(* whatever number of organic entries the response contains.               *)
C15_AtMostNumUrls ==
  SearchEnded => Len(searchResult.val) <= searchArgs.num

(* C16: the hl parameter of the request sent to the provider equals the    *)
(* locale passed to search.                                                *)
C16_LocaleForwarded ==
  SearchEnded => searchReq.hl = searchArgs.lang

(* C17: if attempts 1..k-1 fail with HTTP errors and attempt k (k in 1..5) *)
(* succeeds with first-candidate text t, summarize returns exactly t.      *)
C17_TextPassedThrough ==
  (pc = "done" /\ attempts # <<>> /\ ~HttpFailed(LastAttempt)
     /\ LastAttempt.kind = "resp" /\ LastAttempt.body = "text")
    => /\ \A i \in 1..(Len(attempts) - 1) : HttpFailed(attempts[i])
       /\ genResult = Returned(<<LastAttempt.text>>)
       /\ sumResult = Returned(<<LastAttempt.text>>)

C17_Witness ==
  /\ Len(attempts) = 5
  /\ \A i \in 1..4 : HttpFailed(attempts[i])
  /\ attempts[5].body = "text"
  /\ sumResult = Returned(<<attempts[5].text>>)

(* C18: every backoff wait is between 4 and 10, waits never decrease, at   *)
(* most 4 waits occur per invocation, each wait follows an attempt that    *)
(* failed with an HTTP error, and no wait follows the final attempt.       *)
C18_BackoffBounds ==
  /\ \A i \in 1..Len(waits) : waits[i] >= 4 /\ waits[i] <= 10
  /\ \A i \in 1..(Len(waits) - 1) : waits[i] <= waits[i + 1]
  /\ Len(waits) <= 4
  /\ \A i \in 1..Len(waits) : i <= Len(attempts) /\ HttpFailed(attempts[i])
  /\ (pc = "done" /\ attempts # <<>>) => Len(waits) = Len(attempts) - 1

C18_Witness ==
  /\ pc = "done"
  /\ Len(attempts) = 5
  /\ Len(waits) = 4
  /\ waits[4] > waits[1]

(* the three ways an invocation of generate hands control back *)
EndedWithValue == genResult.kind = "returned"

EndedExhausted ==
  /\ genResult.kind = "raised"
  /\ genResult.exc.cls = "RetryError"
  /\ Len(attempts) = 5
  /\ AllAttempts(HttpFailed)

EndedNonRetryable ==
  /\ genResult.kind = "raised"
  /\ genResult.exc.cls \notin {"RetryError", "HTTPError"}
  /\ ~HttpFailed(LastAttempt)

InvocationPending == pc \in {"attempt", "wait"}

(* C19: provided every request is answered and every sleep ends, a started *)
(* generate invocation eventually hands control back, in exactly one of    *)
(* three ways (value, retry exhaustion, non-retryable error), and nothing  *)
(* is handed back while the retry sequence is pending.                     *)
C19_InvocationCompletes ==
  /\ [](InvocationPending => (~GenerateEnded /\ sumResult.kind = "none"))
  /\ [](GenerateEnded =>
          /\ (EndedWithValue \/ EndedExhausted \/ EndedNonRetryable)
          /\ ~(EndedWithValue /\ EndedExhausted)
          /\ ~(EndedWithValue /\ EndedNonRetryable)
          /\ ~(EndedExhausted /\ EndedNonRetryable))
  /\ (InvocationPending ~> GenerateEnded)

C19_Witness ==
  /\ EndedExhausted
  /\ pc = "done"
  /\ sumResult.kind = "returned"

(* no token of the string s is one of the secret keys *)
KeyFree(s) == \A i \in 1..Len(s) : s[i] \notin Keys

(* C20: no user-visible output depends on the API keys. The keys enter a   *)
(* displayed or returned string only as whole tokens, so two runs that     *)
(* differ only in the keys show the same text exactly when no shown token  *)
(* is a key.                                                               *)
C20_OutputIndependentOfKeys ==
  /\ \A i \in 1..Len(display) : KeyFree(display[i].text)
  /\ KeyFree(sumResult.val)

====
